---- MODULE Spec2Model ----
(***************************************************************************)
(* Model of the two scripts of MLProject:                                  *)
(*   automate_Fakih-Widatmojo.py  load_data, preprocess_data, main         *)
(*   modelling_tuning.py          load_data, main (the K-Means sweep)      *)
(*                                                                         *)
(* Encoding of pandas values.  A nullable cell is a set: {} is NaN and {v} *)
(* is the value v.  An InvoiceDate cell is a record [kind, v]: kind "text" *)
(* is the string read from the CSV (v indexes the text), kind "datetime"   *)
(* is a parsed timestamp (v in hours), kind "NaT" is the null timestamp.   *)
(* A table is a sequence of rows, a row a function from column names to    *)
(* cells.                                                                  *)
(***************************************************************************)
EXTENDS Integers, Sequences, FiniteSets, TLC

\* ------------------------------------------------------------------ bounds
MaxRows == 2
MaxCust == 2
MaxPoints == 8

\* ------------------------------------------------------- program constants
DayHours == 24
ClipLower == 0
ClipUpper == 1
KStart == 2
KStop == 7

VARIABLES
    \* automate_Fakih-Widatmojo.py
    exists,         \* os.path.exists(input_path)
    cols,           \* the columns of the input CSV
    csv,            \* the rows of the input CSV, as stored on disk
    df,             \* the DataFrame main() loaded and passed to preprocess_data
    df_clean,       \* preprocess_data's local df_clean
    clean_cols,     \* df_clean.columns
    snapshot_date,  \* preprocess_data's local snapshot_date
    rfm,            \* preprocess_data's local rfm
    rfm_features,   \* preprocess_data's local rfm_features
    rfm_scaled_df,  \* preprocess_data's result
    err,            \* the exception that ended the run, if any
    pc,             \* the statement main()/preprocess_data is about to execute
    \* written by automate's main, read by modelling_tuning's main
    file,           \* online-sales-dataset_preprocessing.csv: <<>> (no file)
                    \* or <<shape>>, the shape of the table it holds
    \* modelling_tuning.py
    X,              \* the training matrix (shape of the table, CustomerID dropped)
    k,              \* the loop variable
    model,          \* the KMeans model of the current iteration
    scored,         \* the current iteration has computed its metrics
    inertia_list,   \* inertia_list, one entry per scored k
    run_stack,      \* mlflow's stack of active runs, innermost last
    runs,           \* the tracking store: run name -> status
    ended,          \* the nested runs in the order they ended, with status
    sink,           \* everything logged to the tracking store
    tpc             \* the statement modelling_tuning.main is about to execute

pvars == <<exists, cols, csv, df, df_clean, clean_cols, snapshot_date, rfm,
           rfm_features, rfm_scaled_df, err, pc>>
tvars == <<X, k, model, scored, inertia_list, run_stack, runs, ended,
           sink, tpc>>
vars == <<pvars, file, tvars>>

\* ================================================================ helpers
NaN == {}
IsNaN(cell) == cell = {}
Val(cell) == CHOOSE v \in cell : TRUE

NaT == [kind |-> "NaT", v |-> 0]
Text(n) == [kind |-> "text", v |-> n]
Datetime(h) == [kind |-> "datetime", v |-> h]

RECURSIVE SumSeq(_)
SumSeq(s) == IF s = <<>> THEN 0 ELSE Head(s) + SumSeq(Tail(s))

MaxOf(S) == CHOOSE m \in S : \A x \in S : x <= m
MinOf(S) == CHOOSE m \in S : \A x \in S : m <= x

RECURSIVE SortedSeq(_)
SortedSeq(S) == IF S = {} THEN <<>>
                ELSE <<MinOf(S)>> \o SortedSeq(S \ {MinOf(S)})

Range(s) == {s[i] : i \in 1..Len(s)}
WithCol(r, col, cell) ==
    [c \in (DOMAIN r) \cup {col} |-> IF c = col THEN cell ELSE r[c]]

\* ================================================= the input CSV (bounded)
RequiredCols == {"CustomerID", "InvoiceNo", "InvoiceDate", "Quantity",
                 "UnitPrice", "Discount"}
AllCols == RequiredCols \cup {"ReturnStatus"}

\* The texts of the InvoiceDate column: text 1 and text 2 are timestamps
\* (hour 0 and hour 36 of the data set), every other text is unparsable.
HourOf == <<0, 36>>
BadText == Len(HourOf) + 1

GoodRow(c, t) ==
    [CustomerID |-> {c}, InvoiceNo |-> {"INV"}, InvoiceDate |-> Text(t),
     Quantity |-> 2, UnitPrice |-> 5, Discount |-> {0},
     ReturnStatus |-> "Not Returned"]

RowPool ==
    {GoodRow(c, t) : c \in 1..MaxCust, t \in DOMAIN HourOf}
    \cup {[GoodRow(1, 1) EXCEPT !.CustomerID = NaN],
          [GoodRow(1, 1) EXCEPT !.InvoiceNo = NaN],
          [GoodRow(1, 1) EXCEPT !.InvoiceDate = Text(BadText)],
          [GoodRow(1, 1) EXCEPT !.Quantity = 0],
          [GoodRow(1, 2) EXCEPT !.Quantity = 1],
          [GoodRow(1, 1) EXCEPT !.UnitPrice = 0 - 5],
          [GoodRow(1, 1) EXCEPT !.Discount = NaN],
          [GoodRow(1, 1) EXCEPT !.Discount = {0 - 1}],
          [GoodRow(1, 1) EXCEPT !.Discount = {2}],
          [GoodRow(1, 1) EXCEPT !.Discount = {1}],
          [GoodRow(2, 1) EXCEPT !.InvoiceDate = Text(BadText)],
          [GoodRow(2, 2) EXCEPT !.Quantity = 0 - 1],
          [GoodRow(1, 1) EXCEPT !.ReturnStatus = "Returned"]}

Project(r, cs) == [c \in cs |-> r[c]]
Tables(cs) ==
    UNION {[1..n -> {Project(r, cs) : r \in RowPool}] : n \in 0..MaxRows}

\* The column sets of the input: every column, no ReturnStatus column, or
\* one required column missing.
Schemas == {AllCols, RequiredCols} \cup {RequiredCols \ {c} : c \in RequiredCols}

NoErr == [type |-> "none", what |-> "", step |-> ""]
KeyError(col, step) == [type |-> "KeyError", what |-> col, step |-> step]
ValueError(what, step) == [type |-> "ValueError", what |-> what, step |-> step]

\* ============================================ automate_Fakih-Widatmojo.py
\* pd.to_datetime(text, errors='coerce')
to_datetime(cell) ==
    IF cell.kind = "text"
    THEN IF cell.v \in DOMAIN HourOf THEN Datetime(HourOf[cell.v]) ELSE NaT
    ELSE cell

\* Series.clip(lower=0, upper=1): NaN stays NaN
clip(cell) ==
    {IF d < ClipLower THEN ClipLower ELSE IF d > ClipUpper THEN ClipUpper ELSE d
       : d \in cell}

\* Quantity * UnitPrice * (1 - DiscountClipped): NaN when the discount is NaN
TotalPriceOf(r) ==
    {r["Quantity"] * r["UnitPrice"] * (1 - d) : d \in r["DiscountClipped"]}

\* Series.max(): the largest non-null timestamp, NaT when there is none
SeriesMax(rows) ==
    LET hs == {r["InvoiceDate"].v : r \in {x \in Range(rows) : x["InvoiceDate"].kind = "datetime"}}
    IN  IF hs = {} THEN NaT ELSE Datetime(MaxOf(hs))

\* df_clean['InvoiceDate'].max() + dt.timedelta(days=1)
SnapshotOf(rows) ==
    LET m == SeriesMax(rows)
    IN  IF m.kind = "NaT" THEN NaT ELSE Datetime(m.v + DayHours)

\* (snapshot_date - x.max()).days: whole days, NaN when either side is NaT
RecencyOf(snap, rows) ==
    LET m == SeriesMax(rows)
    IN  IF snap.kind = "NaT" \/ m.kind = "NaT" THEN NaN
        ELSE {(snap.v - m.v) \div DayHours}

\* 'count': the number of non-null cells of the column
CountOf(rows, col) == Len(SelectSeq(rows, LAMBDA r : ~IsNaN(r[col])))

\* 'sum': the sum of the non-null cells of the column
SumOf(rows, col) ==
    LET present == SelectSeq(rows, LAMBDA r : ~IsNaN(r[col]))
    IN  SumSeq([i \in 1..Len(present) |-> Val(present[i][col])])

\* groupby('CustomerID').agg({...}).reset_index() and the rename: one row per
\* key, keys ascending
Aggregate(snap, rows) ==
    LET keys == SortedSeq({r["CustomerID"] : r \in Range(rows)})
        group(c) == SelectSeq(rows, LAMBDA r : r["CustomerID"] = c)
    IN  [i \in 1..Len(keys) |->
            [CustomerID |-> keys[i],
             Recency |-> RecencyOf(snap, group(keys[i])),
             Frequency |-> CountOf(group(keys[i]), "InvoiceNo"),
             Monetary |-> SumOf(group(keys[i]), "TotalPrice")]]

\* np.log1p on the three feature columns: injective on x >= 0, NaN stays NaN
Log1p(cell) == {<<"log1p", v>> : v \in cell}
LogFeatures(t) ==
    [i \in 1..Len(t) |->
        [Recency |-> Log1p(t[i].Recency), Frequency |-> Log1p({t[i].Frequency}),
         Monetary |-> Log1p({t[i].Monetary})]]

\* A scaler that accepts a table of zero rows (mutant of ScalerRejects)
ScalerAcceptsEmpty(t) == FALSE
\* StandardScaler.fit_transform: refuses a table of zero rows
ScalerRejects(t) == Len(t) = 0
\* (x - mean) / scale per column, scale 1 for a constant column: within one
\* table two cells of a column are equal after scaling iff they were before
Standardize(cell) == {<<"z", v>> : v \in cell}
ScaledFrame(feat, ids) ==
    [i \in 1..Len(feat) |->
        [Recency |-> Standardize(feat[i].Recency),
         Frequency |-> Standardize(feat[i].Frequency),
         Monetary |-> Standardize(feat[i].Monetary),
         CustomerID |-> ids[i].CustomerID]]

\* What modelling_tuning reads back from the written CSV: the number of rows,
\* the number of distinct feature vectors, and whether a cell is empty.
ShapeOf(t) ==
    [n |-> Len(t),
     distinct |-> Cardinality({<<r.Recency, r.Frequency, r.Monetary>> : r \in Range(t)}),
     nan |-> \E r \in Range(t) : IsNaN(r.Recency) \/ IsNaN(r.Frequency) \/ IsNaN(r.Monetary)]

InitLocals ==
    /\ df = <<>>
    /\ df_clean = <<>>
    /\ clean_cols = {}
    /\ snapshot_date = NaT
    /\ rfm = <<>>
    /\ rfm_features = <<>>
    /\ rfm_scaled_df = <<>>
    /\ err = NoErr
    /\ pc = "load"

InitSweepIdle ==
    /\ X = [n |-> 0, distinct |-> 0, nan |-> FALSE]
    /\ k = KStart
    /\ model = [n_clusters |-> 0, n_labels |-> 0]
    /\ scored = FALSE
    /\ inertia_list = <<>>
    /\ run_stack = <<>>
    /\ runs = <<>>
    /\ ended = <<>>
    /\ sink = {}
    /\ tpc = "load"

Init ==
    /\ exists \in BOOLEAN
    /\ cols \in (IF exists THEN Schemas ELSE {{}})
    /\ csv \in (IF exists THEN Tables(cols) ELSE {<<>>})
    /\ file = <<>>
    /\ InitLocals
    /\ InitSweepIdle

Raise(e) ==
    /\ err' = e
    /\ pc' = "failed"

\* main: load_data(input_path), and the except branch that prints and returns
Load ==
    /\ pc = "load"
    /\ \/ /\ ~exists
          /\ err' = [type |-> "FileNotFoundError", what |-> "input", step |-> "load"]
          /\ pc' = "noinput"
          /\ UNCHANGED df
       \/ /\ exists
          /\ df' = csv
          /\ pc' = "parse"
          /\ UNCHANGED err
    /\ UNCHANGED <<exists, cols, csv, df_clean, clean_cols, snapshot_date, rfm,
                   rfm_features, rfm_scaled_df, file, tvars>>

\* df['InvoiceDate'] = pd.to_datetime(df['InvoiceDate'], errors='coerce')
ParseDates ==
    /\ pc = "parse"
    /\ \/ /\ "InvoiceDate" \notin cols
          /\ Raise(KeyError("InvoiceDate", "parse"))
          /\ UNCHANGED df
       \/ /\ "InvoiceDate" \in cols
          /\ df' = [i \in 1..Len(df) |->
                      [df[i] EXCEPT !["InvoiceDate"] = to_datetime(@)]]
          /\ pc' = "dropna"
          /\ UNCHANGED err
    /\ UNCHANGED <<exists, cols, csv, df_clean, clean_cols, snapshot_date, rfm,
                   rfm_features, rfm_scaled_df, file, tvars>>

\* df_clean = df.dropna(subset=["CustomerID"]).copy(), then astype(int)
DropNaCustomer ==
    /\ pc = "dropna"
    /\ \/ /\ "CustomerID" \notin cols
          /\ Raise(KeyError("CustomerID", "dropna"))
          /\ UNCHANGED <<df_clean, clean_cols>>
       \/ /\ "CustomerID" \in cols
          /\ LET kept == SelectSeq(df, LAMBDA r : ~IsNaN(r["CustomerID"]))
             IN  df_clean' = [i \in 1..Len(kept) |->
                                [kept[i] EXCEPT !["CustomerID"] = Val(@)]]
          /\ clean_cols' = cols
          /\ pc' = "returns"
          /\ UNCHANGED err
    /\ UNCHANGED <<exists, cols, csv, df, snapshot_date, rfm, rfm_features,
                   rfm_scaled_df, file, tvars>>

\* if 'ReturnStatus' in df_clean.columns: keep the 'Not Returned' rows
FilterReturns ==
    /\ pc = "returns"
    /\ \/ /\ "ReturnStatus" \in clean_cols
          /\ df_clean' = SelectSeq(df_clean,
                                   LAMBDA r : r["ReturnStatus"] = "Not Returned")
       \/ /\ "ReturnStatus" \notin clean_cols
          /\ UNCHANGED df_clean
    /\ pc' = "quantity"
    /\ UNCHANGED <<exists, cols, csv, df, clean_cols, snapshot_date, rfm,
                   rfm_features, rfm_scaled_df, err, file, tvars>>

\* df_clean = df_clean[df_clean['Quantity'] > 0]
FilterQuantity ==
    /\ pc = "quantity"
    /\ \/ /\ "Quantity" \notin clean_cols
          /\ Raise(KeyError("Quantity", "quantity"))
          /\ UNCHANGED df_clean
       \/ /\ "Quantity" \in clean_cols
          /\ df_clean' = SelectSeq(df_clean, LAMBDA r : r["Quantity"] > 0)
          /\ pc' = "unitprice"
          /\ UNCHANGED err
    /\ UNCHANGED <<exists, cols, csv, df, clean_cols, snapshot_date, rfm,
                   rfm_features, rfm_scaled_df, file, tvars>>

\* df_clean = df_clean[df_clean['UnitPrice'] > 0]
FilterUnitPrice ==
    /\ pc = "unitprice"
    /\ \/ /\ "UnitPrice" \notin clean_cols
          /\ Raise(KeyError("UnitPrice", "unitprice"))
          /\ UNCHANGED df_clean
       \/ /\ "UnitPrice" \in clean_cols
          /\ df_clean' = SelectSeq(df_clean, LAMBDA r : r["UnitPrice"] > 0)
          /\ pc' = "price"
          /\ UNCHANGED err
    /\ UNCHANGED <<exists, cols, csv, df, clean_cols, snapshot_date, rfm,
                   rfm_features, rfm_scaled_df, file, tvars>>

\* the DiscountClipped and TotalPrice columns
AddTotalPrice ==
    /\ pc = "price"
    /\ \/ /\ "Discount" \notin clean_cols
          /\ Raise(KeyError("Discount", "price"))
          /\ UNCHANGED <<df_clean, clean_cols>>
       \/ /\ "Discount" \in clean_cols
          /\ df_clean' = [i \in 1..Len(df_clean) |->
                LET r == WithCol(df_clean[i], "DiscountClipped",
                                 clip(df_clean[i]["Discount"]))
                IN  WithCol(r, "TotalPrice", TotalPriceOf(r))]
          /\ clean_cols' = clean_cols \cup {"DiscountClipped", "TotalPrice"}
          /\ pc' = "snapshot"
          /\ UNCHANGED err
    /\ UNCHANGED <<exists, cols, csv, df, snapshot_date, rfm, rfm_features,
                   rfm_scaled_df, file, tvars>>

\* snapshot_date = df_clean['InvoiceDate'].max() + dt.timedelta(days=1)
TakeSnapshot ==
    /\ pc = "snapshot"
    /\ snapshot_date' = SnapshotOf(df_clean)
    /\ pc' = "aggregate"
    /\ UNCHANGED <<exists, cols, csv, df, df_clean, clean_cols, rfm,
                   rfm_features, rfm_scaled_df, err, file, tvars>>

\* rfm = df_clean.groupby('CustomerID').agg({...}).reset_index(), renamed
BuildRFM ==
    /\ pc = "aggregate"
    /\ \/ /\ "InvoiceNo" \notin clean_cols
          /\ Raise(KeyError("InvoiceNo", "aggregate"))
          /\ UNCHANGED rfm
       \/ /\ "InvoiceNo" \in clean_cols
          /\ rfm' = Aggregate(snapshot_date, df_clean)
          /\ pc' = "log"
          /\ UNCHANGED err
    /\ UNCHANGED <<exists, cols, csv, df, df_clean, clean_cols, snapshot_date,
                   rfm_features, rfm_scaled_df, file, tvars>>

\* rfm_features = rfm[['Recency', 'Frequency', 'Monetary']].apply(np.log1p)
LogTransform ==
    /\ pc = "log"
    /\ rfm_features' = LogFeatures(rfm)
    /\ pc' = "scale"
    /\ UNCHANGED <<exists, cols, csv, df, df_clean, clean_cols, snapshot_date,
                   rfm, rfm_scaled_df, err, file, tvars>>

\* scaler.fit_transform(rfm_features), the result frame, return
Scale ==
    /\ pc = "scale"
    /\ \/ /\ ScalerRejects(rfm_features)
          /\ Raise(ValueError("StandardScaler", "scale"))
          /\ UNCHANGED rfm_scaled_df
       \/ /\ ~ScalerRejects(rfm_features)
          /\ rfm_scaled_df' = ScaledFrame(rfm_features, rfm)
          /\ pc' = "save"
          /\ UNCHANGED err
    /\ UNCHANGED <<exists, cols, csv, df, df_clean, clean_cols, snapshot_date,
                   rfm, rfm_features, file, tvars>>

\* main: df_processed.to_csv(output_path, index=False)
Save ==
    /\ pc = "save"
    /\ file' = <<ShapeOf(rfm_scaled_df)>>
    /\ pc' = "done"
    /\ UNCHANGED <<exists, cols, csv, df, df_clean, clean_cols, snapshot_date,
                   rfm, rfm_features, rfm_scaled_df, err, tvars>>

Next ==
    \/ Load
    \/ ParseDates
    \/ DropNaCustomer
    \/ FilterReturns
    \/ FilterQuantity
    \/ FilterUnitPrice
    \/ AddTotalPrice
    \/ TakeSnapshot
    \/ BuildRFM
    \/ LogTransform
    \/ Scale
    \/ Save

Spec == Init /\ [][Next]_vars

\* ===================================================== modelling_tuning.py
KRange == KStart..(KStop - 1)
ParentRun == [name |-> "K-Means Hyperparameter Tuning", k |-> 0]
TrialRun(j) == [name |-> "K-Means-k", k |-> j]

\* Logging to the outermost run instead (mutant of ActiveRun)
OutermostRun(stack) == stack[1]
\* mlflow logs to the innermost active run
ActiveRun(stack) == stack[Len(stack)]

SetStatus(store, run, status) ==
    [r \in (DOMAIN store) \cup {run} |-> IF r = run THEN status ELSE store[r]]

\* KMeans(n_clusters=k).fit(X): refuses NaN cells and fewer samples than clusters
FitRejects(x, j) == x.nan \/ x.n < j
\* the number of distinct labels of the fit: duplicate points share a cluster
LabelsOf(x, j) == IF j < x.distinct THEN j ELSE x.distinct
\* silhouette_score(X, labels): needs 2 <= n_labels <= n_samples - 1
ScoreRejects(x, m) == ~(1 < m.n_labels /\ m.n_labels < x.n)

Logged(run, kind, key, of) == [run |-> run, kind |-> kind, key |-> key, of |-> of]

InitSweep ==
    /\ exists = FALSE
    /\ cols = {}
    /\ csv = <<>>
    /\ InitLocals
    /\ file \in {<<>>} \cup
                {<<[n |-> n, distinct |-> d, nan |-> b]>> :
                    n \in 1..MaxPoints, d \in 1..MaxPoints, b \in BOOLEAN}
    /\ file # <<>> => file[1].distinct <= file[1].n
    /\ InitSweepIdle

\* an exception leaves both with-blocks: every active run ends FAILED
Unwind ==
    /\ runs' = [r \in DOMAIN runs |->
                  IF r \in Range(run_stack) THEN "FAILED" ELSE runs[r]]
    /\ ended' = Append(ended, [k |-> k, status |-> "FAILED"])
    /\ run_stack' = <<>>
    /\ tpc' = "crashed"

\* data = load_data(...); X = data.drop(columns=['CustomerID'])
TLoad ==
    /\ tpc = "load"
    /\ \/ /\ file = <<>>
          /\ tpc' = "nofile"
          /\ UNCHANGED X
       \/ /\ file # <<>>
          /\ X' = file[1]
          /\ tpc' = "setup"
    /\ UNCHANGED <<pvars, file, k, model, scored, inertia_list, run_stack,
                   runs, ended, sink>>

\* set_tracking_uri, set_experiment, inertia_list = [], the parent run
TStartParent ==
    /\ tpc = "setup"
    /\ inertia_list' = <<>>
    /\ k' = KStart
    /\ run_stack' = Append(run_stack, ParentRun)
    /\ runs' = SetStatus(runs, ParentRun, "RUNNING")
    /\ tpc' = "for"
    /\ UNCHANGED <<pvars, file, X, model, scored, ended, sink>>

\* for k in k_range: with mlflow.start_run(run_name=f"K-Means-k{k}", nested=True)
TFor ==
    /\ tpc = "for"
    /\ \/ /\ k \in KRange
          /\ run_stack' = Append(run_stack, TrialRun(k))
          /\ runs' = SetStatus(runs, TrialRun(k), "RUNNING")
          /\ scored' = FALSE
          /\ tpc' = "fit"
       \/ /\ k \notin KRange
          /\ runs' = SetStatus(runs, ActiveRun(run_stack), "FINISHED")
          /\ run_stack' = SubSeq(run_stack, 1, Len(run_stack) - 1)
          /\ tpc' = "done"
          /\ UNCHANGED scored
    /\ UNCHANGED <<pvars, file, X, k, model, inertia_list, ended, sink>>

\* model = KMeans(n_clusters=k, init='k-means++', random_state=42); model.fit(X)
TFit ==
    /\ tpc = "fit"
    /\ \/ /\ FitRejects(X, k)
          /\ Unwind
          /\ UNCHANGED model
       \/ /\ ~FitRejects(X, k)
          /\ model' = [n_clusters |-> k, n_labels |-> LabelsOf(X, k)]
          /\ tpc' = "score"
          /\ UNCHANGED <<runs, ended, run_stack>>
    /\ UNCHANGED <<pvars, file, X, k, scored, inertia_list, sink>>

\* score_silhouette = silhouette_score(X, model.labels_); inertia_list.append
TScore ==
    /\ tpc = "score"
    /\ \/ /\ ScoreRejects(X, model)
          /\ Unwind
          /\ UNCHANGED <<scored, inertia_list>>
       \/ /\ ~ScoreRejects(X, model)
          /\ scored' = TRUE
          /\ inertia_list' = Append(inertia_list, model.n_clusters)
          /\ tpc' = "log_params"
          /\ UNCHANGED <<runs, ended, run_stack>>
    /\ UNCHANGED <<pvars, file, X, k, model, sink>>

\* mlflow.log_param("n_clusters", k); mlflow.log_param("algorithm", "K-Means")
TLogParams ==
    /\ tpc = "log_params"
    /\ sink' = sink \cup {Logged(ActiveRun(run_stack), "param", "n_clusters", k),
                          Logged(ActiveRun(run_stack), "param", "algorithm", k)}
    /\ tpc' = "log_metrics"
    /\ UNCHANGED <<pvars, file, X, k, model, scored, inertia_list, run_stack,
                   runs, ended>>

\* mlflow.log_metric("silhouette_score", ...); mlflow.log_metric("inertia", ...)
TLogMetrics ==
    /\ tpc = "log_metrics"
    /\ sink' = sink \cup
         {Logged(ActiveRun(run_stack), "metric", "silhouette_score", model.n_clusters),
          Logged(ActiveRun(run_stack), "metric", "inertia", model.n_clusters)}
    /\ tpc' = "log_model"
    /\ UNCHANGED <<pvars, file, X, k, model, scored, inertia_list, run_stack,
                   runs, ended>>

\* mlflow.sklearn.log_model(model, f"model_k{k}")
TLogModel ==
    /\ tpc = "log_model"
    /\ sink' = sink \cup
         {Logged(ActiveRun(run_stack), "model", "model_k", model.n_clusters)}
    /\ tpc' = "log_plot"
    /\ UNCHANGED <<pvars, file, X, k, model, scored, inertia_list, run_stack,
                   runs, ended>>

\* the scatter plot of data_clustered, mlflow.log_artifact(plot_filename)
TLogPlot ==
    /\ tpc = "log_plot"
    /\ sink' = sink \cup
         {Logged(ActiveRun(run_stack), "artifact", "cluster_plot_k", model.n_clusters)}
    /\ tpc' = "log_csv"
    /\ UNCHANGED <<pvars, file, X, k, model, scored, inertia_list, run_stack,
                   runs, ended>>

\* data_clustered.to_csv(csv_filename), mlflow.log_artifact(csv_filename)
TLogCsv ==
    /\ tpc = "log_csv"
    /\ sink' = sink \cup
         {Logged(ActiveRun(run_stack), "artifact", "result_k", model.n_clusters)}
    /\ tpc' = "end_run"
    /\ UNCHANGED <<pvars, file, X, k, model, scored, inertia_list, run_stack,
                   runs, ended>>

\* the end of the nested with-block, and the loop's next k
TEndRun ==
    /\ tpc = "end_run"
    /\ runs' = SetStatus(runs, ActiveRun(run_stack), "FINISHED")
    /\ ended' = Append(ended, [k |-> k, status |-> "FINISHED"])
    /\ run_stack' = SubSeq(run_stack, 1, Len(run_stack) - 1)
    /\ k' = k + 1
    /\ tpc' = "for"
    /\ UNCHANGED <<pvars, file, X, model, scored, inertia_list, sink>>

NextSweep ==
    \/ TLoad
    \/ TStartParent
    \/ TFor
    \/ TFit
    \/ TScore
    \/ TLogParams
    \/ TLogMetrics
    \/ TLogModel
    \/ TLogPlot
    \/ TLogCsv
    \/ TEndRun

SpecSweep == InitSweep /\ [][NextSweep]_vars

\* ================================================================== claims
\* cleaning (steps 1-8 of the Cleaner) has completed
Cleaned ==
    \/ pc \in {"snapshot", "aggregate", "log", "scale", "save", "done"}
    \/ pc = "failed" /\ err.step \in {"aggregate", "scale"}
\* the RFM table has been built
RFMBuilt ==
    \/ pc \in {"log", "scale", "save", "done"}
    \/ pc = "failed" /\ err.step = "scale"
FullSchema == RequiredCols \subseteq cols
SweepEnded == tpc \in {"done", "crashed"}
RowsOf(c) == SelectSeq(df_clean, LAMBDA r : r["CustomerID"] = c)

\* C1: a failure while fitting or scoring one k is recorded for that k only
\* and does not abort the sweep: when the sweep has ended, every k of 2..6 has
\* been attempted and has an outcome, a finished trial or a recorded failure.
C1_FailureDoesNotAbort ==
    SweepEnded =>
        \A j \in KRange :
            /\ TrialRun(j) \in DOMAIN runs
            /\ runs[TrialRun(j)] \in {"FINISHED", "FAILED"}

\* C2: on a data set of at least 7 customers (all feature values finite) the
\* sweep ends with exactly five outcomes, one per k of 2..6, in ascending
\* order of k.
C2_SweepComplete ==
    (SweepEnded /\ X.n >= 7 /\ ~X.nan) =>
        [i \in 1..Len(ended) |-> ended[i].k] =
            [i \in 1..(KStop - KStart) |-> KStart + i - 1]

\* C3: on a data set of exactly one customer every trial k of 2..6 reports a
\* failure (k >= number of points) as its own outcome, one outcome per k.
C3_SingleCustomerAllInvalidK ==
    (SweepEnded /\ X.n = 1) =>
        \A j \in KRange :
            \E i \in 1..Len(ended) : ended[i] = [k |-> j, status |-> "FAILED"]

\* The feature stage on cleaned rows of exactly one customer: it succeeds and
\* writes a table of a single row (the first half of C3).
SingleCustomerSingleRow ==
    (pc = "done" /\ Cardinality({r["CustomerID"] : r \in Range(df_clean)}) = 1)
        => (Len(rfm_scaled_df) = 1 /\ file # <<>> /\ file[1].n = 1)

\* C4: every row that survives cleaning has quantity > 0, unitPrice > 0 and a
\* clamped discount in [0, 1]; a missing discount counts as 0.
C4_PostCleaner ==
    (FullSchema /\ Cleaned) =>
        \A r \in Range(df_clean) :
            /\ r["Quantity"] > 0
            /\ r["UnitPrice"] > 0
            /\ ~IsNaN(r["DiscountClipped"])
            /\ \A d \in r["DiscountClipped"] : 0 <= d /\ d <= 1

\* C5: every RFM row has a defined recencyDays >= 0 and frequency >= 1, and
\* there is exactly one RFM row per distinct customerId of the cleaned rows.
C5_RFMInvariant ==
    (FullSchema /\ RFMBuilt) =>
        /\ \A i \in 1..Len(rfm) :
              /\ ~IsNaN(rfm[i].Recency)
              /\ \A d \in rfm[i].Recency : d >= 0
              /\ rfm[i].Frequency >= 1
        /\ {rfm[i].CustomerID : i \in 1..Len(rfm)} =
              {r["CustomerID"] : r \in Range(df_clean)}
        /\ \A i, j \in 1..Len(rfm) :
              rfm[i].CustomerID = rfm[j].CustomerID => i = j

\* The aggregation as the claim states it: the discount a row is charged
\* with (missing counts as 0, otherwise clamped into [0, 1]), the newest
\* parsed timestamp of a set of rows, and the snapshot instant.
ClaimedDiscount(cell) ==
    IF cell = {} THEN 0
    ELSE LET d == Val(cell) IN IF d < 0 THEN 0 ELSE IF d > 1 THEN 1 ELSE d
ClaimedStamps(rows) ==
    {rows[i]["InvoiceDate"].v :
        i \in {n \in 1..Len(rows) : rows[n]["InvoiceDate"].kind = "datetime"}}
ClaimedMonetary(rows) ==
    SumSeq([i \in 1..Len(rows) |->
        rows[i]["Quantity"] * rows[i]["UnitPrice"]
            * (1 - ClaimedDiscount(rows[i]["Discount"]))])

\* C6: per customer, frequency is the number of the customer's cleaned rows,
\* monetary the sum of quantity * unitPrice * (1 - clamped discount) over
\* them, and recencyDays the whole days from the customer's newest timestamp
\* to the snapshot instant (newest timestamp of all cleaned rows plus a day).
C6_Aggregation ==
    (FullSchema /\ RFMBuilt) =>
        \A i \in 1..Len(rfm) :
            LET mine == RowsOf(rfm[i].CustomerID)
            IN  /\ rfm[i].Frequency = Len(mine)
                /\ rfm[i].Monetary = ClaimedMonetary(mine)
                /\ ClaimedStamps(mine) # {} =>
                     rfm[i].Recency =
                        {((MaxOf(ClaimedStamps(df_clean)) + DayHours)
                            - MaxOf(ClaimedStamps(mine))) \div DayHours}

\* C7: an input that lacks a required column fails with an error naming the
\* missing column before any processing step has taken effect: no column of
\* the input has been parsed or rewritten and nothing has been produced.
C7_SchemaFailFast ==
    (pc = "failed" /\ ~FullSchema) =>
        /\ err.what \in RequiredCols \ cols
        /\ df = csv
        /\ rfm_scaled_df = <<>>
        /\ file = <<>>

TrialOutputs(j) ==
    {Logged(TrialRun(j), "param", "n_clusters", j),
     Logged(TrialRun(j), "param", "algorithm", j),
     Logged(TrialRun(j), "metric", "silhouette_score", j),
     Logged(TrialRun(j), "metric", "inertia", j),
     Logged(TrialRun(j), "model", "model_k", j),
     Logged(TrialRun(j), "artifact", "cluster_plot_k", j),
     Logged(TrialRun(j), "artifact", "result_k", j)}

\* C9: a completed trial has reported exactly its parameters, metrics, model
\* and two artifacts, under its own run; every output is reported under the
\* run of its own k, and only once that k's model is fitted and scored.
C9_TrialOutputs ==
    /\ \A j \in KRange :
          (TrialRun(j) \in DOMAIN runs /\ runs[TrialRun(j)] = "FINISHED")
              => {r \in sink : r.run = TrialRun(j)} = TrialOutputs(j)
    /\ \A r \in sink :
          /\ r.run \in {TrialRun(j) : j \in KRange}
          /\ r.of = r.run.k
          /\ runs[r.run] = "RUNNING" => (model.n_clusters = r.run.k /\ scored)

\* a sweep that ran every trial to its end
C9_Witness ==
    /\ tpc = "done"
    /\ \A j \in KRange : runs[TrialRun(j)] = "FINISHED"
    /\ Cardinality(sink) = 7 * (KStop - KStart)

\* C10: cleaning does not mutate its input: the caller's table holds the rows
\* and values it was loaded with.
C10_InputNotMutated ==
    (exists /\ FullSchema /\ pc # "load") => df = csv

\* ------------------------------------------------- what the code does keep
\* Every cleaned row has quantity > 0 and unitPrice > 0, and a discount that
\* is present is clamped into [0, 1].
CleanedRowsPositive ==
    (FullSchema /\ Cleaned) =>
        \A r \in Range(df_clean) :
            /\ r["Quantity"] > 0
            /\ r["UnitPrice"] > 0
            /\ \A d \in r["DiscountClipped"] : ClipLower <= d /\ d <= ClipUpper

\* The RFM table holds exactly one row per customerId of the cleaned rows.
OneRowPerCustomer ==
    (FullSchema /\ RFMBuilt) =>
        /\ {rfm[i].CustomerID : i \in 1..Len(rfm)} =
              {r["CustomerID"] : r \in Range(df_clean)}
        /\ Len(rfm) = Cardinality({r["CustomerID"] : r \in Range(df_clean)})

\* For a customer whose cleaned rows have every cell present, the RFM row is
\* the one C6 states.
AggregationOnCompleteRows ==
    (FullSchema /\ RFMBuilt) =>
        \A i \in 1..Len(rfm) :
            LET mine == RowsOf(rfm[i].CustomerID)
            IN  (\A n \in 1..Len(mine) :
                     /\ ~IsNaN(mine[n]["InvoiceNo"])
                     /\ ~IsNaN(mine[n]["Discount"])
                     /\ mine[n]["InvoiceDate"].kind = "datetime")
                =>  /\ rfm[i].Frequency = Len(mine)
                    /\ rfm[i].Monetary = ClaimedMonetary(mine)
                    /\ rfm[i].Recency =
                         {((MaxOf(ClaimedStamps(df_clean)) + DayHours)
                             - MaxOf(ClaimedStamps(mine))) \div DayHours}

\* On at least 7 finite points that are not all the same point, the sweep
\* runs the five trials to their end, in ascending order of k.
SweepCompleteOnDistinctPoints ==
    (SweepEnded /\ X.n >= 7 /\ ~X.nan /\ X.distinct >= 2) =>
        /\ tpc = "done"
        /\ ended = [i \in 1..(KStop - KStart) |->
                       [k |-> KStart + i - 1, status |-> "FINISHED"]]
====
